---- MODULE Spec2Model ----
(***************************************************************************)
(* The AI-service layer of rust_gigachat_demo (src/src/services/mod.rs):   *)
(* the AiService trait with its two implementations GigaChatService and    *)
(* MockAiService, and AiServiceFactory::create.                            *)
(*                                                                         *)
(* Strings are TLA+ strings; Option<T> is a sequence of length 0 (None) or *)
(* 1 (Some).  Four specifications share the module:                        *)
(*   Spec        the factory, and concurrent ask calls on the handle       *)
(*   SpecCancel  Spec, with callers that may drop a suspended ask          *)
(*   SpecHandle  ask, name and system_prompt_applied on the handle         *)
(*   SpecMock    MockAiService::ask applied to questions of a bounded set  *)
(***************************************************************************)
EXTENDS Integers, Sequences, FiniteSets, TLC

\* ------------------------------------------------------------------ bounds

\* Number of ask calls issued on the handle.
MaxCalls == 2
\* Threads of the caller's non-blocking runtime.
AsyncThreads == 2
\* Seconds of waiting for the provider that the model counts.
MaxWait == 2
\* Number of fragments concatenated into a question given to the mock.
MaxFragments == 2

Calls == 1..MaxCalls

\* ------------------------------------------------------------------ Option

None == <<>>
Some(x) == <<x>>
IsSome(o) == Len(o) = 1
Unwrap(o) == o[1]

\* ------------------------------------------------------------------ str

Char(s, i) == SubSeq(s, i, i)

\* char::is_whitespace, on the characters the model uses.
IsWhitespace(ch) == ch \in {" ", "\t", "\n"}

RECURSIVE TrimStart(_)
TrimStart(s) ==
    IF Len(s) > 0 /\ IsWhitespace(Char(s, 1))
    THEN TrimStart(SubSeq(s, 2, Len(s)))
    ELSE s

RECURSIVE TrimEnd(_)
TrimEnd(s) ==
    IF Len(s) > 0 /\ IsWhitespace(Char(s, Len(s)))
    THEN TrimEnd(SubSeq(s, 1, Len(s) - 1))
    ELSE s

\* str::trim
Trim(s) == TrimEnd(TrimStart(s))

\* str::is_empty
IsEmpty(s) == Len(s) = 0

\* str::starts_with
StartsWith(s, p) == Len(s) >= Len(p) /\ SubSeq(s, 1, Len(p)) = p

\* str::contains
Contains(s, p) ==
    \E i \in 1..(Len(s) - Len(p) + 1) : SubSeq(s, i, i + Len(p) - 1) = p

UpperAlphabet == "ABCDEFGHIJKLMNOPQRSTUVWXYZ"
LowerAlphabet == "abcdefghijklmnopqrstuvwxyz"

\* char::to_lowercase, on the characters the model uses.
LowerChar(ch) ==
    IF \E i \in 1..Len(UpperAlphabet) : Char(UpperAlphabet, i) = ch
    THEN LET i == CHOOSE j \in 1..Len(UpperAlphabet) : Char(UpperAlphabet, j) = ch
         IN  Char(LowerAlphabet, i)
    ELSE ch

RECURSIVE ToLowercase(_)
\* str::to_lowercase
ToLowercase(s) ==
    IF Len(s) = 0 THEN ""
    ELSE LowerChar(Char(s, 1)) \o ToLowercase(SubSeq(s, 2, Len(s)))

\* ------------------------------------------------------------------ Result

\* Result<String, AiServiceError>: Ok(text), or Err of one of the three
\* variants of AiServiceError with its message.
Ok(text) == [kind |-> "Ok", text |-> text]
ApiError(msg) == [kind |-> "ApiError", text |-> msg]
ConfigError(msg) == [kind |-> "ConfigError", text |-> msg]
InternalError(msg) == [kind |-> "InternalError", text |-> msg]
\* No result yet.
NoResult == [kind |-> "None", text |-> ""]

\* ------------------------------------------------------------------ MockAiService

GreetingAnswer ==
    "Hello! I'm a demo AI assistant for the Rust project.\n\nI'm running in mock mode, but I can answer questions about:\n- Rust programming language\n- Rocket web framework\n- Async programming\n- REST API and JSON\n- Testing\n- Error handling\n\nTry asking me about any of these topics! For full AI capabilities, configure the GigaChat API connection."

RocketAnswer ==
    "Rocket is a web framework for Rust that makes building fast and secure web applications simple and enjoyable. Key features:\n- Compile-time type safety\n- Convenient routing macros (#[get], #[post], etc.)\n- Automatic JSON deserialization\n- Built-in testing support\n- Flexible middleware system (fairings)\nRocket is ideal for building REST APIs and web services."

TestAnswer ==
    "Testing in Rust is a built-in language feature. Types of tests:\n- Unit tests (#[test]) - test individual functions\n- Integration tests (tests/ folder) - test component interactions\n- Doc tests - examples in documentation that are automatically verified\nRocket provides convenient tools for testing web apps via rocket::local::blocking::Client. Run with: cargo test"

ErrorAnswer ==
    "Error handling in Rust is based on Result<T, E> and Option<T> types:\n- Result - for operations that may fail\n- Option - for values that may be absent\n- ? operator - for convenient error propagation\n- thiserror - library for creating custom error types\nThis approach forces explicit error handling and eliminates many runtime issues."

SerdeAnswer ==
    "Serde is a powerful framework for serializing and deserializing data in Rust. It allows you to:\n- Automatically convert JSON to Rust structs\n- Convert structs back to JSON\n- Work with other formats (TOML, YAML, MessagePack)\n- Use derive macros for automatic code generation\nExample: #[derive(Serialize, Deserialize)] makes a struct JSON-compatible."

AsyncAnswer ==
    "Async programming in Rust allows efficient handling of many tasks simultaneously without creating many threads. Key concepts:\n- async/await - syntax for async functions\n- Future - trait for async computations\n- Tokio - popular async runtime\n- Async trait - for async methods in traits\nEspecially useful for web servers, network apps, and I/O operations."

ApiAnswer ==
    "REST API (Representational State Transfer) is an architectural style for building web services. Main principles:\n- GET - retrieve data\n- POST - create new resources\n- PUT/PATCH - update existing resources\n- DELETE - remove resources\nWith Rust and Rocket, building APIs is convenient thanks to type safety and automatic JSON handling via serde."

HowWorkAnswer ==
    "This app is a demo project showing how to build a web service in Rust. Architecture:\n- Rocket - accepts HTTP requests\n- Handlers - process requests (in src/handlers/)\n- Services - business logic and AI integration (in src/services/)\n- Models - data structures for API (in src/models/)\n- Config - configuration management (config.toml)\n\nThe service can run in two modes: with real GigaChat API or with mocks (current)."

RustAnswer ==
    "Rust is a systems programming language focused on safety, speed, and concurrency. It was developed by Mozilla Research and first released in 2010. Rust guarantees memory safety without using a garbage collector through its ownership and borrowing system. This makes Rust ideal for systems programming, web servers, embedded systems, and high-performance applications."

FallbackAnswer ==
    "This is a demo response from the mock service.\n\nI can help with questions about:\n- Rust and its features\n- Rocket web framework\n- Async programming\n- REST API\n- Testing\n\nTry asking: 'What is Rust?' or 'How does Rocket work?'\n\nFor real AI responses, configure the GigaChat API by setting GIGACHAT_TOKEN environment variable and gigachat.enabled=true in config.toml."

\* The greeting predicate of MockAiService::ask.
\* Mutant of IsGreeting: starts_with is called with receiver and argument
\* exchanged.
IsGreetingPrefixOf(question_lower) ==
    \/ Contains(question_lower, "hello")
    \/ StartsWith("hi ", question_lower)
    \/ StartsWith("hi!", question_lower)
    \/ StartsWith("hi,", question_lower)
    \/ question_lower = "hi"

\* Mutant of IsGreeting: "hi" is looked for anywhere in the question.
IsGreetingAnywhere(question_lower) ==
    \/ Contains(question_lower, "hello")
    \/ Contains(question_lower, "hi")

IsGreeting(question_lower) ==
    \/ Contains(question_lower, "hello")
    \/ StartsWith(question_lower, "hi ")
    \/ StartsWith(question_lower, "hi!")
    \/ StartsWith(question_lower, "hi,")
    \/ question_lower = "hi"

\* Mutant of MockAnswer: the "rust" branch is tried before the "rocket" one.
MockAnswerRustFirst(question_lower) ==
    IF IsGreeting(question_lower) THEN GreetingAnswer
    ELSE IF Contains(question_lower, "rust") THEN RustAnswer
    ELSE IF Contains(question_lower, "rocket") THEN RocketAnswer
    ELSE IF Contains(question_lower, "test") THEN TestAnswer
    ELSE IF Contains(question_lower, "error") THEN ErrorAnswer
    ELSE IF Contains(question_lower, "serde") \/ Contains(question_lower, "json")
         THEN SerdeAnswer
    ELSE IF Contains(question_lower, "async") THEN AsyncAnswer
    ELSE IF Contains(question_lower, "api") THEN ApiAnswer
    ELSE IF Contains(question_lower, "how") /\ Contains(question_lower, "work")
         THEN HowWorkAnswer
    ELSE FallbackAnswer

\* The if / else-if chain of MockAiService::ask on the lowercased question.
MockAnswer(question_lower) ==
    IF IsGreeting(question_lower) THEN GreetingAnswer
    ELSE IF Contains(question_lower, "rocket") THEN RocketAnswer
    ELSE IF Contains(question_lower, "test") THEN TestAnswer
    ELSE IF Contains(question_lower, "error") THEN ErrorAnswer
    ELSE IF Contains(question_lower, "serde") \/ Contains(question_lower, "json")
         THEN SerdeAnswer
    ELSE IF Contains(question_lower, "async") THEN AsyncAnswer
    ELSE IF Contains(question_lower, "api") THEN ApiAnswer
    ELSE IF Contains(question_lower, "how") /\ Contains(question_lower, "work")
         THEN HowWorkAnswer
    ELSE IF Contains(question_lower, "rust") THEN RustAnswer
    ELSE FallbackAnswer

\* Mutant of MockAsk: an empty question is rejected instead of answered.
MockAskRejectsEmpty(question) ==
    IF IsEmpty(question)
    THEN ConfigError("question is empty")
    ELSE Ok(MockAnswer(ToLowercase(question)))

\* Mutant of MockAsk: the chain is run on the question as given, not on its
\* lowercased text.
MockAskCaseSensitive(question) == Ok(MockAnswer(question))

\* MockAiService::ask
MockAsk(question) == Ok(MockAnswer(ToLowercase(question)))

\* MockAiService::name
MockName == "Mock AI Service"

\* MockAiService::system_prompt_applied
MockSystemPromptApplied == FALSE

\* ------------------------------------------------------------------ inputs

\* GigaChatConfig values (crate::config): enabled, model, max_tokens,
\* temperature (in tenths) and timeout_seconds.
Configs ==
    [enabled : BOOLEAN, model : {"GigaChat"}, max_tokens : {128},
     temperature : {7}, timeout_seconds : {1, 2}]

\* Option<String> credentials given to the factory.
Tokens == {None, Some(""), Some(" \t"), Some("tok123")}

\* Option<String> system prompts given to the factory.
Prompts == {None, Some(""), Some("   "), Some(" Be concise\n")}

\* Questions given to ask on the service handle.
Questions == {"", " What is Rust? "}

\* What the provider may answer to one dispatch: a response with its content,
\* or a failure (transport, or reported by the provider) with its description.
ProviderResponses ==
    {[kind |-> "Ok", text |-> " Rust is a language. \n"],
     [kind |-> "Ok", text |-> "42"],
     [kind |-> "Err", text |-> "error sending request: connection refused"]}

\* ------------------------------------------------------------------ state

VARIABLES
    feature,     \* whether the build has the "gigachat" feature
    args,        \* the arguments AiServiceFactory::create was called with
    service,     \* the Box<dyn AiService> handle the caller holds
    pc,          \* pc[c]: where the caller's future of ask call c stands
    question,    \* question[c]: the argument of ask call c
    locals,      \* locals[c]: the per-call copies ask makes before spawning
    wk,          \* wk[c]: the spawn_blocking task of ask call c
    result,      \* result[c]: what ask call c returned
    stats,       \* stats[c]: the workers, clients and dispatches call c made
    asyncHeld,   \* the calls whose future is being polled on a runtime thread
    mockQ,       \* SpecMock: the question given to MockAiService::ask
    mockR,       \* SpecMock: the result of MockAiService::ask
    mockOther,   \* SpecMock: another question asked afterwards, with its result
    mockAgain,   \* SpecMock: mockQ asked once more, in some letter case
    nameSeen,    \* SpecHandle: what the last service.name() returned
    appliedSeen  \* SpecHandle: what the last system_prompt_applied() returned

vars ==
    <<feature, args, service, pc, question, locals, wk, result, stats,
      asyncHeld, mockQ, mockR, mockOther, mockAgain, nameSeen, appliedSeen>>

mockVars == <<mockQ, mockR, mockOther, mockAgain>>
obsVars == <<nameSeen, appliedSeen>>
callVars == <<pc, question, locals, wk, result, stats, asyncHeld>>

\* ------------------------------------------------------------------ GigaChatService

\* GigaChatService::new
GigaChatServiceNew(token, config, system_prompt) ==
    [kind |-> "GigaChat", token |-> token, config |-> config,
     system_prompt |-> system_prompt]

\* MockAiService::new (a unit struct)
MockAiServiceNew == [kind |-> "Mock"]

\* The handle before AiServiceFactory::create has run.
NoService == [kind |-> "Unset"]

\* Mutant of GigaChatName: the name of the mock, copied.
GigaChatNameCopied == "Mock AI Service"

\* GigaChatService::name
GigaChatName == "GigaChat"

\* Mutant of GigaChatSystemPromptApplied: the prompt is tested without
\* trimming it.
GigaChatSystemPromptAppliedUntrimmed(self) ==
    IF IsSome(self.system_prompt)
    THEN ~IsEmpty(Unwrap(self.system_prompt))
    ELSE FALSE

\* GigaChatService::system_prompt_applied
GigaChatSystemPromptApplied(self) ==
    IF IsSome(self.system_prompt)
    THEN ~IsEmpty(Trim(Unwrap(self.system_prompt)))
    ELSE FALSE

\* Mutant of TokenIsBlank: the token is tested without trimming it.
TokenIsEmptyUntrimmed(self) == IsEmpty(self.token)

\* The guard at the head of GigaChatService::ask.
TokenIsBlank(self) == IsEmpty(Trim(self.token))

\* Mutant of ConfigErrorMessage: the message quotes the stored token.
ConfigErrorMessageWithToken ==
    "GigaChat token '" \o service.token \o "' is empty"

\* The text of the ConfigError of ask.
ConfigErrorMessage == "GigaChat token is empty"

\* Mutant of EffectivePrompt: the filter on emptiness is missing.
EffectivePromptUnfiltered(self) ==
    IF IsSome(self.system_prompt)
    THEN Some(Trim(Unwrap(self.system_prompt)))
    ELSE None

\* self.system_prompt.as_ref().map(trim).filter(non-empty)
EffectivePrompt(self) ==
    IF IsSome(self.system_prompt) /\ ~IsEmpty(Trim(Unwrap(self.system_prompt)))
    THEN Some(Trim(Unwrap(self.system_prompt)))
    ELSE None

\* The two fixed parts of the format! template (Russian in the source,
\* rendered here in ASCII).
PromptHeader == "System instructions (do not show to the user):\n"
PromptSeparator == "\n\nUser question:\n"

\* The text ask hands to the worker: the format! template around the trimmed
\* prompt and the question, or the question alone.
ComposePrompt(self, q) ==
    IF IsSome(EffectivePrompt(self))
    THEN PromptHeader \o Unwrap(EffectivePrompt(self)) \o PromptSeparator \o q
    ELSE q

\* The copies ask makes for the worker closure: token, config, composed prompt.
AskLocals(self, q) ==
    [token |-> self.token, config |-> self.config, prompt |-> ComposePrompt(self, q)]

NoLocals == [token |-> "", config |-> <<>>, prompt |-> ""]

\* MessageConfigBuilder ... build(): max_tokens, model, temperature.
MsgConfig(config) ==
    [max_tokens |-> config.max_tokens, model |-> config.model,
     temp |-> config.temperature]

\* Mutant of NewClient: one client object, built once and used by every call.
SharedClient(c, l) ==
    [id |-> 0, basic_token |-> l.token, msg_cfg |-> MsgConfig(l.config)]

\* ClientBuilder::new().set_basic_token(..).set_msg_cfg(..).build(): a new
\* client object, owned by the worker closure of call c.
NewClient(c, l) ==
    [id |-> c, basic_token |-> l.token, msg_cfg |-> MsgConfig(l.config)]

\* The spawn_blocking task: not spawned yet.
NoWorker ==
    [phase |-> "none", pool |-> "none", client |-> None, reply |-> NoResult,
     sent |-> None, waited |-> 0]

\* JoinError::to_string for a panicked task.
JoinErrorToString(c) == "task panicked"

\* gigalib's error, displayed: e.to_string().
ErrorToString(reply) == reply.text

\* Mutant of ResponseContent: the content is trimmed before it is returned.
ResponseContentTrimmed(reply) == Trim(reply.text)

\* resp.content of a successful send_message.
ResponseContent(reply) == reply.text

\* Mutant of JoinResult: the provider's failure is reported as ConfigError.
JoinResultErrAsConfig(c, w) ==
    IF w.phase = "panicked" THEN InternalError(JoinErrorToString(c))
    ELSE IF w.reply.kind = "Err" THEN ConfigError(ErrorToString(w.reply))
    ELSE Ok(ResponseContent(w.reply))

\* Mutant of JoinResult: the provider's failure is reported as InternalError.
JoinResultErrAsInternal(c, w) ==
    IF w.phase = "panicked" THEN InternalError(JoinErrorToString(c))
    ELSE IF w.reply.kind = "Err" THEN InternalError(ErrorToString(w.reply))
    ELSE Ok(ResponseContent(w.reply))

\* Mutant of JoinResult: the worker's panic is reported as ApiError.
JoinResultPanicAsApi(c, w) ==
    IF w.phase = "panicked" THEN ApiError(JoinErrorToString(c))
    ELSE IF w.reply.kind = "Err" THEN ApiError(ErrorToString(w.reply))
    ELSE Ok(ResponseContent(w.reply))

\* The two map_err of ask on the joined task, then Ok(result).
JoinResult(c, w) ==
    IF w.phase = "panicked" THEN InternalError(JoinErrorToString(c))
    ELSE IF w.reply.kind = "Err" THEN ApiError(ErrorToString(w.reply))
    ELSE Ok(ResponseContent(w.reply))

\* What a call has done so far: workers spawned, clients built (and their
\* identities), dispatches made.
NoStats == [workers |-> 0, clients |-> 0, client_ids |-> {}, dispatches |-> 0]

\* ------------------------------------------------------------------ AiServiceFactory

\* Mutant of CreateWithFeature: a blank token counts as no token.
CreateWithFeatureNonBlank(config, token, system_prompt) ==
    IF config.enabled /\ IsSome(token) /\ ~IsEmpty(Trim(Unwrap(token)))
    THEN GigaChatServiceNew(Unwrap(token), config, system_prompt)
    ELSE MockAiServiceNew

\* AiServiceFactory::create, in a build with the "gigachat" feature.
CreateWithFeature(config, token, system_prompt) ==
    IF config.enabled /\ IsSome(token)
    THEN GigaChatServiceNew(Unwrap(token), config, system_prompt)
    ELSE MockAiServiceNew

\* Mutant of CreateWithoutFeature: the rule of the feature build is applied.
CreateWithoutFeatureSelects(config, token, system_prompt) ==
    IF config.enabled /\ IsSome(token)
    THEN GigaChatServiceNew(Unwrap(token), config, system_prompt)
    ELSE MockAiServiceNew

\* AiServiceFactory::create, in a build without the "gigachat" feature.
CreateWithoutFeature(config, token, system_prompt) == MockAiServiceNew

\* AiServiceFactory::create: the build selects one of the two definitions.
FactoryCreate(hasFeature, config, token, system_prompt) ==
    IF hasFeature
    THEN CreateWithFeature(config, token, system_prompt)
    ELSE CreateWithoutFeature(config, token, system_prompt)

NoArgs == [config |-> <<>>, token |-> None, system_prompt |-> None]

\* ------------------------------------------------------------------ Spec

Init ==
    /\ feature \in BOOLEAN
    /\ args = NoArgs
    /\ service = NoService
    /\ pc = [c \in Calls |-> "idle"]
    /\ question = [c \in Calls |-> ""]
    /\ locals = [c \in Calls |-> NoLocals]
    /\ wk = [c \in Calls |-> NoWorker]
    /\ result = [c \in Calls |-> NoResult]
    /\ stats = [c \in Calls |-> NoStats]
    /\ asyncHeld = {}
    /\ mockQ = ""
    /\ mockR = NoResult
    /\ mockOther = None
    /\ mockAgain = None
    /\ nameSeen = None
    /\ appliedSeen = None

\* Startup: the caller builds its one handle with AiServiceFactory::create.
Create(config, token, system_prompt) ==
    /\ service.kind = "Unset"
    /\ args' = [config |-> config, token |-> token, system_prompt |-> system_prompt]
    /\ service' = FactoryCreate(feature, config, token, system_prompt)
    /\ UNCHANGED <<feature, callVars, mockVars, obsVars>>

\* A request handler calls service.ask(q): its future gets a runtime thread.
\* Calls are numbered in the order they start.
AskStart(c, q) ==
    /\ service.kind # "Unset"
    /\ pc[c] = "idle"
    /\ \A d \in Calls : d < c => pc[d] # "idle"
    /\ Cardinality(asyncHeld) < AsyncThreads
    /\ pc' = [pc EXCEPT ![c] = "entered"]
    /\ question' = [question EXCEPT ![c] = q]
    /\ asyncHeld' = asyncHeld \cup {c}
    /\ UNCHANGED <<feature, args, service, locals, wk, result, stats, mockVars, obsVars>>

\* Mutant of MockAskInput: the question is kept in a buffer shared by all
\* calls, which holds the question of the call that started last.
MockAskInputShared(c) ==
    LET started == {d \in Calls : pc[d] # "idle"}
        last == CHOOSE d \in started : \A e \in started : e <= d
    IN  question[last]

\* The question a call of MockAiService::ask works on: its own argument,
\* lowercased into a local of the call.
MockAskInput(c) == question[c]

\* MockAiService::ask: no await inside, the first poll returns the answer.
MockAskReturn(c) ==
    /\ service.kind = "Mock"
    /\ pc[c] = "entered"
    /\ result' = [result EXCEPT ![c] = MockAsk(MockAskInput(c))]
    /\ pc' = [pc EXCEPT ![c] = "returned"]
    /\ asyncHeld' = asyncHeld \ {c}
    /\ UNCHANGED <<feature, args, service, question, locals, wk, stats, mockVars, obsVars>>

\* Mutant of SelfAfterClones: the token is moved out of self (mem::take)
\* instead of cloned.
SelfAfterTake(self) == [self EXCEPT !.token = ""]

\* Mutant of SelfAfterClones: the trimmed prompt is stored back into self.
SelfAfterTrimInPlace(self) ==
    [self EXCEPT !.system_prompt =
        IF IsSome(@) THEN Some(Trim(Unwrap(@))) ELSE @]

\* The service after ask has made its copies: ask borrows self immutably and
\* clone() leaves the fields as they are.
SelfAfterClones(self) == self

\* Mutant of HandleAfterResult: after an error the handle falls back to the
\* mock.
HandleFallsBackToMock(handle, r) ==
    IF r.kind \in {"ApiError", "ConfigError", "InternalError"}
    THEN MockAiServiceNew
    ELSE handle

\* The caller's handle after ask has returned r: ask has only &self, and no
\* outcome replaces the boxed service.
HandleAfterResult(handle, r) == handle

\* GigaChatService::ask up to the spawn: the token guard, then the clones and
\* the composed prompt.
AskCheckToken(c) ==
    /\ service.kind = "GigaChat"
    /\ pc[c] = "entered"
    /\ IF TokenIsBlank(service)
       THEN /\ result' = [result EXCEPT ![c] = ConfigError(ConfigErrorMessage)]
            /\ service' = HandleAfterResult(service, ConfigError(ConfigErrorMessage))
            /\ pc' = [pc EXCEPT ![c] = "returned"]
            /\ asyncHeld' = asyncHeld \ {c}
            /\ UNCHANGED locals
       ELSE /\ locals' = [locals EXCEPT ![c] = AskLocals(service, question[c])]
            /\ service' = SelfAfterClones(service)
            /\ pc' = [pc EXCEPT ![c] = "composed"]
            /\ UNCHANGED <<result, asyncHeld>>
    /\ UNCHANGED <<feature, args, question, wk, stats, mockVars, obsVars>>

\* Mutant of WorkerPool: the closure runs inline, on the runtime thread that
\* polls the future.
WorkerInline == "async"

\* The pool the closure of ask runs on: tokio's blocking pool.
WorkerPool == "blocking"

\* tokio::task::spawn_blocking(move || ..).await: the closure goes to the
\* blocking pool and the future suspends, giving its runtime thread back.
AskSpawnBlocking(c) ==
    /\ pc[c] = "composed"
    /\ wk' = [wk EXCEPT ![c] = [NoWorker EXCEPT !.phase = "spawned", !.pool = WorkerPool]]
    /\ stats' = [stats EXCEPT ![c].workers = @ + 1]
    /\ pc' = [pc EXCEPT ![c] = "awaiting"]
    /\ asyncHeld' = IF WorkerPool = "blocking" THEN asyncHeld \ {c} ELSE asyncHeld
    /\ UNCHANGED <<feature, args, service, question, locals, result, mockVars, obsVars>>

\* The worker builds the message config, the client and the chat.
WorkerBuildClient(c) ==
    /\ wk[c].phase = "spawned"
    /\ wk' = [wk EXCEPT ![c].phase = "built",
                        ![c].client = Some(NewClient(c, locals[c]))]
    /\ stats' = [stats EXCEPT ![c].clients = @ + 1,
                              ![c].client_ids = @ \cup {NewClient(c, locals[c]).id}]
    /\ UNCHANGED <<feature, args, service, pc, question, locals, result,
                   asyncHeld, mockVars, obsVars>>

\* Runtime::new().unwrap() fails: the closure panics and unwinds, dropping the
\* client.
WorkerRuntimePanic(c) ==
    /\ wk[c].phase = "built"
    /\ wk' = [wk EXCEPT ![c].phase = "panicked", ![c].client = None]
    /\ UNCHANGED <<feature, args, service, pc, question, locals, result, stats,
                   asyncHeld, mockVars, obsVars>>

\* Runtime::new() succeeds and block_on drives chat.send_message(prompt): the
\* one dispatch to the provider; the worker blocks until it completes.
WorkerDispatch(c) ==
    /\ wk[c].phase = "built"
    /\ wk' = [wk EXCEPT ![c].phase = "blocked", ![c].sent = Some(locals[c].prompt)]
    /\ stats' = [stats EXCEPT ![c].dispatches = @ + 1]
    /\ UNCHANGED <<feature, args, service, pc, question, locals, result,
                   asyncHeld, mockVars, obsVars>>

\* A second passes while the worker is blocked on the provider; waited counts
\* the seconds of the current wait.  Nothing in ask reads
\* config.timeout_seconds, so no step ends the wait.
Tick(c) ==
    /\ wk[c].phase = "blocked"
    /\ wk[c].waited < MaxWait
    /\ wk' = [wk EXCEPT ![c].waited = @ + 1]
    /\ UNCHANGED <<feature, args, service, pc, question, locals, result, stats,
                   asyncHeld, mockVars, obsVars>>

\* Mutant of AfterReply: after a failure the worker sends the message again.
RetryOnFailure(r) == IF r.kind = "Err" THEN "built" ELSE "done"

\* Where the worker goes when send_message has completed with r: block_on
\* returns r, success or failure, and the closure ends.
AfterReply(r) == "done"

\* send_message completes with the provider's response or failure; block_on
\* returns it, the closure ends and drops runtime, chat and client.
ProviderRespond(c, r) ==
    /\ wk[c].phase = "blocked"
    /\ wk' = [wk EXCEPT ![c].phase = AfterReply(r), ![c].reply = r,
                        ![c].client = IF AfterReply(r) = "done" THEN None ELSE @,
                        ![c].waited = 0]
    /\ UNCHANGED <<feature, args, service, pc, question, locals, result, stats,
                   asyncHeld, mockVars, obsVars>>

\* A panic while send_message is driven: the closure unwinds.
WorkerDispatchPanic(c) ==
    /\ wk[c].phase = "blocked"
    /\ wk' = [wk EXCEPT ![c].phase = "panicked", ![c].client = None,
                        ![c].waited = 0]
    /\ UNCHANGED <<feature, args, service, pc, question, locals, result, stats,
                   asyncHeld, mockVars, obsVars>>

\* The worker has ended, by returning or by panicking.
WorkerEnded(w) == w.phase \in {"done", "panicked"}

\* Mutant of JoinedWorker: the outcomes of the workers go through one shared
\* slot, and a call takes the outcome of the lowest-numbered ended worker.
JoinedWorkerShared(c) ==
    LET ended == {d \in Calls : WorkerEnded(wk[d])}
    IN  wk[CHOOSE d \in ended : \A e \in ended : d <= e]

\* The task whose JoinHandle the future of call c awaits: the one the call
\* spawned itself.
JoinedWorker(c) == wk[c]

\* The JoinHandle resolves: the future is polled again on a runtime thread,
\* maps the outcome and returns.
AskJoin(c) ==
    /\ pc[c] = "awaiting"
    /\ WorkerEnded(wk[c])
    /\ Cardinality(asyncHeld) < AsyncThreads
    /\ result' = [result EXCEPT ![c] = JoinResult(c, JoinedWorker(c))]
    /\ service' = HandleAfterResult(service, JoinResult(c, JoinedWorker(c)))
    /\ pc' = [pc EXCEPT ![c] = "returned"]
    /\ UNCHANGED <<feature, args, question, locals, wk, stats,
                   asyncHeld, mockVars, obsVars>>

\* The caller drops the suspended future (the request is cancelled); the
\* spawn_blocking task is detached and keeps running.
AskCancel(c) ==
    /\ pc[c] = "awaiting"
    /\ pc' = [pc EXCEPT ![c] = "cancelled"]
    /\ UNCHANGED <<feature, args, service, question, locals, wk, result, stats,
                   asyncHeld, mockVars, obsVars>>

Next ==
    \/ \E config \in Configs, token \in Tokens, system_prompt \in Prompts :
          Create(config, token, system_prompt)
    \/ \E c \in Calls, q \in Questions : AskStart(c, q)
    \/ \E c \in Calls : MockAskReturn(c)
    \/ \E c \in Calls : AskCheckToken(c)
    \/ \E c \in Calls : AskSpawnBlocking(c)
    \/ \E c \in Calls : WorkerBuildClient(c)
    \/ \E c \in Calls : WorkerRuntimePanic(c)
    \/ \E c \in Calls : WorkerDispatch(c)
    \/ \E c \in Calls : Tick(c)
    \/ \E c \in Calls, r \in ProviderResponses : ProviderRespond(c, r)
    \/ \E c \in Calls : WorkerDispatchPanic(c)
    \/ \E c \in Calls : AskJoin(c)

Spec == Init /\ [][Next]_vars

\* The steps of Spec, with callers that may also cancel their requests; the
\* seconds a worker waits are not counted here.
NextCancel ==
    \/ \E config \in Configs, token \in Tokens, system_prompt \in Prompts :
          Create(config, token, system_prompt)
    \/ \E c \in Calls, q \in Questions : AskStart(c, q)
    \/ \E c \in Calls : MockAskReturn(c)
    \/ \E c \in Calls : AskCheckToken(c)
    \/ \E c \in Calls : AskSpawnBlocking(c)
    \/ \E c \in Calls : WorkerBuildClient(c)
    \/ \E c \in Calls : WorkerRuntimePanic(c)
    \/ \E c \in Calls : WorkerDispatch(c)
    \/ \E c \in Calls, r \in ProviderResponses : ProviderRespond(c, r)
    \/ \E c \in Calls : WorkerDispatchPanic(c)
    \/ \E c \in Calls : AskJoin(c)
    \/ \E c \in Calls : AskCancel(c)

SpecCancel == Init /\ [][NextCancel]_vars

\* ------------------------------------------------------------------ SpecHandle

\* service.name() through the trait object.
ServiceName(self) ==
    IF self.kind = "Mock" THEN MockName ELSE GigaChatName

\* Mutant of ServiceSystemPromptApplied: the flag is computed from the prompt
\* given to the factory, whichever implementation was selected.
ServiceSystemPromptAppliedFromArgs(self) ==
    IF IsSome(args.system_prompt)
    THEN ~IsEmpty(Trim(Unwrap(args.system_prompt)))
    ELSE FALSE

\* service.system_prompt_applied() through the trait object.
ServiceSystemPromptApplied(self) ==
    IF self.kind = "Mock"
    THEN MockSystemPromptApplied
    ELSE GigaChatSystemPromptApplied(self)

\* A caller reads service.name().
CallName ==
    /\ service.kind # "Unset"
    /\ nameSeen' = Some(ServiceName(service))
    /\ UNCHANGED <<feature, args, service, callVars, mockVars, appliedSeen>>

\* A caller reads service.system_prompt_applied().
CallSystemPromptApplied ==
    /\ service.kind # "Unset"
    /\ appliedSeen' = Some(ServiceSystemPromptApplied(service))
    /\ UNCHANGED <<feature, args, service, callVars, mockVars, nameSeen>>

\* The three operations of the handle, in any order and interleaving; the
\* seconds a worker waits are not counted here.
NextHandle ==
    \/ \E config \in Configs, token \in Tokens, system_prompt \in Prompts :
          Create(config, token, system_prompt)
    \/ \E c \in Calls, q \in Questions : AskStart(c, q)
    \/ \E c \in Calls : MockAskReturn(c)
    \/ \E c \in Calls : AskCheckToken(c)
    \/ \E c \in Calls : AskSpawnBlocking(c)
    \/ \E c \in Calls : WorkerBuildClient(c)
    \/ \E c \in Calls : WorkerRuntimePanic(c)
    \/ \E c \in Calls : WorkerDispatch(c)
    \/ \E c \in Calls, r \in ProviderResponses : ProviderRespond(c, r)
    \/ \E c \in Calls : WorkerDispatchPanic(c)
    \/ \E c \in Calls : AskJoin(c)
    \/ CallName
    \/ CallSystemPromptApplied

SpecHandle == Init /\ [][NextHandle]_vars

\* ------------------------------------------------------------------ SpecMock

\* Fragments the questions given to the mock are built of.
Fragments ==
    {"hi", "Hi", "hello", " ", "!", ",", "t", "his", "Rocket", "rust", "test",
     "Error", "serde", "JSON", "async", "API", "how", "work", "x"}

RECURSIVE Concatenations(_)
\* The strings made of at most n fragments.
Concatenations(n) ==
    IF n = 0 THEN {""}
    ELSE LET shorter == Concatenations(n - 1)
         IN  shorter \cup {s \o f : s \in shorter, f \in Fragments}

\* The questions of the unit and integration tests and of the documentation;
\* the Russian "Что такое" is transliterated, which adds no keyword.
ExampleQuestions ==
    {"hi there", "hi, friend", "hello world", "this is a test",
     "What is Rocket built on, Rust?", "What is Rust?",
     "Chto takoe Rust?", "Chto takoe Rocket?"}

MockQuestions == Concatenations(MaxFragments) \cup ExampleQuestions

\* The questions asked between two asks of the same question.
OtherQuestions == {"hello world", "What is Rust?"}

InitMock ==
    /\ feature = TRUE
    /\ args = NoArgs
    /\ service = MockAiServiceNew
    /\ pc = [c \in Calls |-> "idle"]
    /\ question = [c \in Calls |-> ""]
    /\ locals = [c \in Calls |-> NoLocals]
    /\ wk = [c \in Calls |-> NoWorker]
    /\ result = [c \in Calls |-> NoResult]
    /\ stats = [c \in Calls |-> NoStats]
    /\ asyncHeld = {}
    /\ mockQ \in MockQuestions
    /\ mockR = NoResult
    /\ mockOther = None
    /\ mockAgain = None
    /\ nameSeen = None
    /\ appliedSeen = None

\* service.ask(mockQ).await on a MockAiService.
MockAskCall ==
    /\ mockR = NoResult
    /\ mockR' = MockAsk(mockQ)
    /\ UNCHANGED <<feature, args, service, callVars, mockQ, mockOther,
                   mockAgain, obsVars>>

\* service.ask(q).await on the same MockAiService, with another question.
MockAskOther(q) ==
    /\ mockR # NoResult
    /\ mockOther = None
    /\ mockAgain = None
    /\ mockOther' = Some([q |-> q, r |-> MockAsk(q)])
    /\ UNCHANGED <<feature, args, service, callVars, mockQ, mockR, mockAgain,
                   obsVars>>

\* service.ask(q).await on the same MockAiService, with q the first question
\* again, as it was or in lower case.
MockAskAgain(q) ==
    /\ mockR # NoResult
    /\ mockAgain = None
    /\ mockAgain' = Some([q |-> q, r |-> MockAsk(q)])
    /\ UNCHANGED <<feature, args, service, callVars, mockQ, mockR, mockOther,
                   obsVars>>

NextMock ==
    \/ MockAskCall
    \/ \E q \in OtherQuestions : MockAskOther(q)
    \/ \E q \in {mockQ, ToLowercase(mockQ)} : MockAskAgain(q)

SpecMock == InitMock /\ [][NextMock]_vars

\* ------------------------------------------------------------------ claims

\* C1: for every question, the empty one included, MockAiService::ask returns
\* Ok with a non-empty answer text; it never returns an error.
C1_MockAskNeverFails ==
    mockR # NoResult => mockR.kind = "Ok" /\ Len(mockR.text) > 0

\* C1 witness: the empty question has been asked and answered.
C1_Witness == mockQ = "" /\ mockR.kind = "Ok"

\* The handle has been created.
Created == service.kind # "Unset"

\* C2 as stated: create returns a GigaChatService exactly when config.enabled
\* and the credential is Some, and a MockAiService in every other case.
C2_Original ==
    Created =>
        /\ service.kind = "GigaChat" <=> (args.config.enabled /\ args.token # None)
        /\ service.kind = "Mock" <=> ~(args.config.enabled /\ args.token # None)

\* C2 amended: in a build with the "gigachat" feature, create returns a
\* GigaChatService exactly when config.enabled and the credential is Some, and
\* a MockAiService in every other case.
C2_FactorySelection ==
    (Created /\ feature) =>
        /\ service.kind = "GigaChat" <=> (args.config.enabled /\ args.token # None)
        /\ service.kind = "Mock" <=> ~(args.config.enabled /\ args.token # None)

\* C2 witness: the feature build selected the GigaChatService, for a blank
\* credential too.
C2_Witness ==
    /\ feature
    /\ service.kind = "GigaChat"
    /\ args.config.enabled
    /\ args.token = Some("")

\* C3: with an empty or whitespace-only credential GigaChatService::ask fails
\* with ConfigError whatever the question and the system prompt, and the call
\* starts no worker, builds no client and dispatches nothing.
C3_BlankCredentialFails ==
    \A c \in Calls :
        (service.kind = "GigaChat" /\ service.token \in {"", " \t"}) =>
            /\ pc[c] \in {"idle", "entered", "returned"}
            /\ pc[c] = "returned" => result[c].kind = "ConfigError"
            /\ wk[c] = NoWorker
            /\ stats[c] = NoStats

\* C3 witness: a call with a whitespace-only credential, a non-empty question
\* and a system prompt has returned.
C3_Witness ==
    \E c \in Calls :
        /\ service.kind = "GigaChat"
        /\ service.token = " \t"
        /\ service.system_prompt = Some(" Be concise\n")
        /\ question[c] # ""
        /\ pc[c] = "returned"
        /\ result[c].kind = "ConfigError"

\* C4 as stated: the wait for the provider is bounded by
\* config.timeout_seconds; a worker is never still blocked on the provider
\* after more than that many seconds.
C4_DispatchBoundedByTimeout ==
    \A c \in Calls :
        wk[c].phase = "blocked" => wk[c].waited <= locals[c].config.timeout_seconds

\* C5: every ask call that passes the credential check builds one client of
\* its own in its own worker on the blocking pool; no client belongs to two
\* calls; when ask has returned, its worker has ended and its client is gone.
C5_FreshClientPerCall ==
    \A c \in Calls :
        /\ stats[c].workers <= 1
        /\ stats[c].clients <= 1
        /\ (service.kind = "GigaChat" /\ pc[c] = "returned"
               /\ result[c].kind # "ConfigError")
              => (stats[c].workers = 1 /\ stats[c].clients = 1)
        /\ wk[c].client # None
              => /\ wk[c].pool = "blocking"
                 /\ wk[c].phase \in {"built", "blocked"}
                 /\ stats[c].client_ids = {Unwrap(wk[c].client).id}
        /\ \A d \in Calls \ {c} : stats[c].client_ids \cap stats[d].client_ids = {}
        /\ pc[c] = "returned"
              => (wk[c].client = None /\ wk[c].phase \in {"none", "done", "panicked"})

\* C5 witness: one call has returned the provider's answer while another
\* call's worker holds its own client.
C5_Witness ==
    \E c, d \in Calls :
        /\ c # d
        /\ pc[c] = "returned"
        /\ result[c].kind = "Ok"
        /\ stats[c].clients = 1
        /\ wk[d].client # None

\* No future is being polled.
NoPollInProgress == \A c \in Calls : pc[c] \notin {"entered", "composed"}

\* C6: the worker of an ask call, and so its blocking wait for the provider,
\* runs on the blocking pool and holds no runtime thread; runtime threads are
\* held only by futures being polled, so while calls are pending on the
\* provider the next call can start.
C6_BlockingOffRuntime ==
    /\ \A c \in Calls :
          wk[c].phase \in {"spawned", "built", "blocked"}
              => (wk[c].pool = "blocking" /\ c \notin asyncHeld)
    /\ asyncHeld \subseteq {c \in Calls : pc[c] \in {"entered", "composed"}}
    /\ \A d \in Calls :
          (/\ \E c \in Calls : wk[c].phase = "blocked"
           /\ NoPollInProgress
           /\ pc[d] = "idle"
           /\ \A e \in Calls : e < d => pc[e] # "idle")
              => ENABLED AskStart(d, "")

\* C6 witness: the second call has started and returned its answer while the
\* first call's worker is still blocked on the provider.
C6_Witness ==
    /\ wk[1].phase = "blocked"
    /\ pc[1] = "awaiting"
    /\ pc[2] = "returned"
    /\ result[2].kind = "Ok"

\* C7: when the dispatch fails (send_message returns Err), ask returns
\* ApiError carrying the description of the failure, never Ok, ConfigError or
\* InternalError.
C7_DispatchFailureIsApiError ==
    \A c \in Calls :
        (pc[c] = "returned" /\ wk[c].phase = "done" /\ wk[c].reply.kind = "Err")
            => (result[c].kind = "ApiError" /\ result[c].text = wk[c].reply.text)

\* C7 witness: a call whose dispatch failed has returned the failure.
C7_Witness ==
    \E c \in Calls :
        /\ pc[c] = "returned"
        /\ wk[c].reply.kind = "Err"
        /\ result[c] =
              [kind |-> "ApiError", text |-> "error sending request: connection refused"]

\* C8: when the worker of an ask call panics, at the creation of its runtime
\* or later, ask returns InternalError to the caller.
C8_WorkerPanicIsInternalError ==
    \A c \in Calls :
        (pc[c] = "returned" /\ wk[c].phase = "panicked")
            => result[c].kind = "InternalError"

\* C8 witness: a worker panicked at Runtime::new(), before any dispatch, and
\* the call has returned.
C8_Witness ==
    \E c \in Calls :
        /\ pc[c] = "returned"
        /\ wk[c].phase = "panicked"
        /\ stats[c].dispatches = 0
        /\ result[c].kind = "InternalError"

\* C9: one ask call dispatches to the provider at most once, also after a
\* failure, and a failed call returns an error, never Ok.
C9_NoRetry ==
    \A c \in Calls :
        /\ stats[c].dispatches <= 1
        /\ (pc[c] = "returned" /\ (wk[c].phase = "panicked" \/ wk[c].reply.kind = "Err"))
              => (result[c].kind \in {"ApiError", "InternalError"}
                  /\ wk[c].phase \in {"done", "panicked"})

\* C9 witness: a call has returned ApiError after its one dispatch.
C9_Witness ==
    \E c \in Calls :
        /\ pc[c] = "returned"
        /\ result[c].kind = "ApiError"
        /\ stats[c].dispatches = 1

\* C10: when the dispatch succeeds, ask returns Ok with exactly the content
\* of the provider's response.
C10_AnswerVerbatim ==
    \A c \in Calls :
        (pc[c] = "returned" /\ wk[c].phase = "done" /\ wk[c].reply.kind = "Ok")
            => result[c] = [kind |-> "Ok", text |-> wk[c].reply.text]

\* C10 witness: a response with leading and trailing whitespace has been
\* returned.
C10_Witness ==
    \E c \in Calls :
        /\ pc[c] = "returned"
        /\ wk[c].reply.kind = "Ok"
        /\ result[c].text = " Rust is a language. \n"

\* C11: the text ask dispatches is the template around the trimmed system
\* prompt followed by the question as given, when the prompt is non-empty
\* after trimming, and the question as given when the prompt is None, empty
\* or whitespace-only.
C11_DispatchedText ==
    \A c \in Calls :
        wk[c].sent # None =>
            Unwrap(wk[c].sent) =
                IF args.system_prompt = Some(" Be concise\n")
                THEN "System instructions (do not show to the user):\nBe concise"
                     \o "\n\nUser question:\n" \o question[c]
                ELSE question[c]

\* C11 witness: a question with surrounding whitespace has been dispatched
\* under a system prompt.
C11_Witness ==
    \E c \in Calls :
        /\ args.system_prompt = Some(" Be concise\n")
        /\ question[c] = " What is Rust? "
        /\ wk[c].sent # None

\* C12: GigaChatService::system_prompt_applied returns true if and only if
\* the system prompt is present and non-empty after trimming: false for None,
\* "" and a whitespace-only prompt.
C12_SystemPromptApplied ==
    (service.kind = "GigaChat" /\ appliedSeen # None) =>
        /\ service.system_prompt \in {None, Some(""), Some("   ")}
              => Unwrap(appliedSeen) = FALSE
        /\ service.system_prompt = Some(" Be concise\n")
              => Unwrap(appliedSeen) = TRUE

\* C12 witness: a GigaChatService with a whitespace-only prompt has answered
\* system_prompt_applied().
C12_Witness ==
    /\ service.kind = "GigaChat"
    /\ service.system_prompt = Some("   ")
    /\ appliedSeen = Some(FALSE)

\* C13: MockAiService::ask gives the greeting answer exactly when the
\* lowercased question equals "hi", contains "hello", or starts with "hi ",
\* "hi!" or "hi,"; "hi", "hi there", "hi!", "hi, friend" and "hello world" are
\* greeted, "this is a test" is not.
C13_GreetingDetection ==
    mockR # NoResult =>
        LET lower == ToLowercase(mockQ)
            greets ==
                \/ lower = "hi"
                \/ \E i \in 1..Len(lower) :
                      i + 4 <= Len(lower) /\ SubSeq(lower, i, i + 4) = "hello"
                \/ /\ Len(lower) >= 3
                   /\ SubSeq(lower, 1, 3) \in {"hi ", "hi!", "hi,"}
        IN  /\ (mockR = Ok(GreetingAnswer)) <=> greets
            /\ mockQ \in {"hi", "hi there", "hi!", "hi, friend", "hello world"}
                  => mockR = Ok(GreetingAnswer)
            /\ mockQ = "this is a test" => mockR = Ok(TestAnswer)

\* C13 witness: "hi, friend" has been answered with the greeting.
C13_Witness ==
    /\ mockQ = "hi, friend"
    /\ mockR = Ok(GreetingAnswer)

\* C14: MockAiService::ask tries its predicates in the order greeting,
\* "rocket", "test", "error", "serde"/"json", "async", "api", "how" with
\* "work", "rust", fallback, and returns the paragraph of the first one that
\* matches; a question with both "rocket" and "rust" gets the Rocket answer,
\* and the Rust answer is given only when nothing earlier matches.
C14_PredicateOrder ==
    mockR # NoResult =>
        LET lower == ToLowercase(mockQ)
            matches ==
                << IsGreeting(lower),
                   Contains(lower, "rocket"),
                   Contains(lower, "test"),
                   Contains(lower, "error"),
                   Contains(lower, "serde") \/ Contains(lower, "json"),
                   Contains(lower, "async"),
                   Contains(lower, "api"),
                   Contains(lower, "how") /\ Contains(lower, "work"),
                   Contains(lower, "rust"),
                   TRUE >>
            answers ==
                << GreetingAnswer, RocketAnswer, TestAnswer, ErrorAnswer,
                   SerdeAnswer, AsyncAnswer, ApiAnswer, HowWorkAnswer,
                   RustAnswer, FallbackAnswer >>
            first ==
                CHOOSE i \in 1..10 :
                    matches[i] /\ \A j \in 1..(i - 1) : ~matches[j]
        IN  /\ \A i, j \in 1..10 : i # j => answers[i] # answers[j]
            /\ mockR = Ok(answers[first])
            /\ (Contains(lower, "rocket") /\ Contains(lower, "rust")
                    /\ ~IsGreeting(lower))
                  => mockR = Ok(RocketAnswer)
            /\ mockR = Ok(RustAnswer) => \A j \in 1..8 : ~matches[j]

\* C14 witness: "What is Rocket built on, Rust?" has been answered with the
\* Rocket paragraph.
C14_Witness ==
    /\ mockQ = "What is Rocket built on, Rust?"
    /\ mockR = Ok(RocketAnswer)

\* C20: through MockAiService a question containing "Rust" and no
\* earlier-ranked keyword gets an answer containing "Rust", a question
\* containing "Rocket" gets an answer containing "Rocket", and the empty
\* question gets the fallback paragraph, not an error.
C20_EndToEndScenario ==
    mockR # NoResult =>
        LET lower == ToLowercase(mockQ)
        IN  /\ mockR.kind = "Ok"
            /\ Contains(mockQ, "Rust") => Contains(mockR.text, "Rust")
            /\ (Contains(mockQ, "Rust") /\ mockR # Ok(RustAnswer)) =>
                  \/ IsGreeting(lower)
                  \/ \E k \in {"rocket", "test", "error", "serde", "json",
                               "async", "api", "how"} : Contains(lower, k)
            /\ Contains(mockQ, "Rocket") => Contains(mockR.text, "Rocket")
            /\ mockQ = "Chto takoe Rust?" => mockR = Ok(RustAnswer)
            /\ mockQ = "Chto takoe Rocket?" => mockR = Ok(RocketAnswer)
            /\ mockQ = "" => mockR = Ok(FallbackAnswer)

\* C20 witness: "Chto takoe Rust?" has been answered with a paragraph
\* containing "Rust".
C20_Witness ==
    /\ mockQ = "Chto takoe Rust?"
    /\ mockR.kind = "Ok"
    /\ Contains(mockR.text, "Rust")

\* C15: with several ask calls in flight on one MockAiService, each call
\* returns the answer its own question determines, whatever the other calls
\* ask and however the calls interleave.
C15_ConcurrentMockAsks ==
    \A c \in Calls :
        (service.kind = "Mock" /\ pc[c] = "returned") =>
            result[c] = Ok(IF question[c] = " What is Rust? "
                           THEN RustAnswer
                           ELSE FallbackAnswer)

\* C15 witness: the second call has returned while the first, asking
\* something else, is still in flight.
C15_Witness ==
    /\ service.kind = "Mock"
    /\ pc[1] = "entered"
    /\ pc[2] = "returned"
    /\ question[1] # question[2]
    /\ result[2].kind = "Ok"

\* C16: when the caller drops a GigaChatService::ask whose worker has been
\* spawned, the caller gets no result, the worker goes on or stays where it
\* is, the stored token, config and system prompt are as constructed, and
\* every other call proceeds on its own data: it can start, it sends its own
\* composed prompt with its own client, and it returns what its own worker
\* produced.
C16_CancelLeavesServiceIntact ==
    \A c \in Calls :
        pc[c] = "cancelled" =>
            /\ result[c] = NoResult
            /\ wk[c].phase \in {"spawned", "built", "blocked", "done", "panicked"}
            /\ service = [kind |-> "GigaChat", token |-> Unwrap(args.token),
                          config |-> args.config,
                          system_prompt |-> args.system_prompt]
            /\ \A d \in Calls \ {c} :
                  /\ (pc[d] = "idle" /\ asyncHeld = {}
                          /\ \A e \in Calls : e < d => pc[e] # "idle")
                        => ENABLED AskStart(d, "")
                  /\ wk[d].sent # None =>
                        Unwrap(wk[d].sent) = ComposePrompt(service, question[d])
                  /\ wk[d].client # None =>
                        /\ Unwrap(wk[d].client).id = d
                        /\ Unwrap(wk[d].client).basic_token = Unwrap(args.token)
                  /\ pc[d] = "returned" =>
                        result[d] =
                            IF wk[d].phase = "panicked"
                            THEN InternalError("task panicked")
                            ELSE IF wk[d].reply.kind = "Err"
                            THEN ApiError(wk[d].reply.text)
                            ELSE Ok(wk[d].reply.text)

\* C16 witness: the first call was cancelled while its worker was blocked on
\* the provider, the worker is still there, and the second call has returned
\* an answer.
C16_Witness ==
    /\ pc[1] = "cancelled"
    /\ wk[1].phase = "blocked"
    /\ pc[2] = "returned"
    /\ result[2].kind = "Ok"

\* C17: the implementation behind the handle is the one the factory chose:
\* after any ask, name and system_prompt_applied calls, whatever their
\* outcomes, a GigaChatService is still a GigaChatService and a
\* MockAiService still a MockAiService.
C17_HandleKindFixed ==
    /\ [](Created =>
             service.kind =
                 IF feature /\ args.config.enabled /\ args.token # None
                 THEN "GigaChat"
                 ELSE "Mock")
    /\ [][Created => service'.kind = service.kind]_vars

\* C17 witness: a GigaChatService has failed one call with ApiError and one
\* with InternalError, and has answered name() and system_prompt_applied().
C17_Witness ==
    /\ service.kind = "GigaChat"
    /\ pc[1] = "returned"
    /\ result[1].kind = "ApiError"
    /\ pc[2] = "returned"
    /\ result[2].kind = "InternalError"
    /\ nameSeen # None
    /\ appliedSeen # None

\* C18: no ask, name or system_prompt_applied call, successful or failed,
\* changes the token, config or system prompt stored in a GigaChatService:
\* they stay as GigaChatService::new stored them, and ask works on copies.
C18_StoredFieldsUnchanged ==
    service.kind = "GigaChat" =>
        /\ service.token = Unwrap(args.token)
        /\ service.config = args.config
        /\ service.system_prompt = args.system_prompt
        /\ \A c \in Calls :
              pc[c] \in {"composed", "awaiting", "returned"}
                  /\ result[c].kind # "ConfigError" =>
                  /\ locals[c].token = service.token
                  /\ locals[c].config = service.config

\* C18 witness: on a GigaChatService with a prompt to trim, one call has
\* succeeded, one has failed, and both observers have been called.
C18_Witness ==
    /\ service.kind = "GigaChat"
    /\ service.system_prompt = Some(" Be concise\n")
    /\ pc[1] = "returned"
    /\ result[1].kind = "Ok"
    /\ pc[2] = "returned"
    /\ result[2].kind = "ApiError"
    /\ nameSeen # None
    /\ appliedSeen # None

\* C19: name() is "Mock AI Service" on a MockAiService and "GigaChat" on a
\* GigaChatService, two different strings, whatever the configuration and
\* whatever was called before.
C19_NameConstant ==
    /\ MockName # GigaChatName
    /\ nameSeen # None =>
          Unwrap(nameSeen) = IF service.kind = "Mock"
                             THEN "Mock AI Service"
                             ELSE "GigaChat"

\* C19 witness: a GigaChatService has answered name() after a failed call.
C19_Witness ==
    /\ nameSeen = Some("GigaChat")
    /\ \E c \in Calls : pc[c] = "returned" /\ result[c].kind = "ApiError"

\* C21: MockAiService::ask depends on the lowercased question only: the
\* first question, asked once more on the same instance as it was or in
\* lower case, gets the answer it got the first time, whether or not another
\* question was asked in between.
C21_FunctionOfLowercasedQuestion ==
    (mockR # NoResult /\ mockAgain # None) =>
        /\ ToLowercase(Unwrap(mockAgain).q) = ToLowercase(mockQ)
        /\ Unwrap(mockAgain).r = mockR

\* C21 witness: "Hi" was answered, then another question, then "hi".
C21_Witness ==
    /\ mockQ = "Hi"
    /\ mockR = Ok(GreetingAnswer)
    /\ mockOther # None
    /\ mockAgain = Some([q |-> "hi", r |-> Ok(GreetingAnswer)])

\* C22: what GigaChatService::ask returns never shows the credential: the
\* ConfigError carries the same fixed text for every blank credential, the
\* InternalError carries the join error, Ok and ApiError carry the provider's
\* text as received, and no returned text contains the stored credential.
C22_CredentialNotEchoed ==
    \A c \in Calls :
        (service.kind = "GigaChat" /\ pc[c] = "returned") =>
            /\ result[c].kind = "ConfigError" =>
                  result[c].text = "GigaChat token is empty"
            /\ result[c].kind = "InternalError" =>
                  result[c].text = "task panicked"
            /\ result[c].kind \in {"Ok", "ApiError"} =>
                  result[c].text = wk[c].reply.text
            /\ service.token # "" =>
                  ~Contains(result[c].text, service.token)

\* C22 witness: a handle with a whitespace-only credential has refused two
\* different questions with the same fixed text.
C22_Witness ==
    /\ service.kind = "GigaChat"
    /\ service.token = " \t"
    /\ question[1] # question[2]
    /\ pc[1] = "returned"
    /\ pc[2] = "returned"
    /\ result[1] = ConfigError("GigaChat token is empty")
    /\ result[2] = result[1]

\* C23 as stated: with config.enabled and a credential that is present but
\* empty or whitespace-only, create selects the GigaChatService, and every
\* ask on the handle fails with ConfigError and dispatches nothing.
C23_Original ==
    (Created /\ args.config.enabled /\ args.token \in {Some(""), Some(" \t")}) =>
        /\ service.kind = "GigaChat"
        /\ \A c \in Calls :
              /\ pc[c] \in {"idle", "entered", "returned"}
              /\ pc[c] = "returned" => result[c].kind = "ConfigError"
              /\ wk[c].sent = None
              /\ stats[c].dispatches = 0

\* C23 amended: in a build with the "gigachat" feature, with config.enabled
\* and a credential that is present but empty or whitespace-only, create
\* selects the GigaChatService, and every ask on the handle fails with
\* ConfigError and dispatches nothing.
C23_BlankCredentialStillLive ==
    (Created /\ feature /\ args.config.enabled
         /\ args.token \in {Some(""), Some(" \t")}) =>
        /\ service.kind = "GigaChat"
        /\ \A c \in Calls :
              /\ pc[c] \in {"idle", "entered", "returned"}
              /\ pc[c] = "returned" => result[c].kind = "ConfigError"
              /\ wk[c].sent = None
              /\ stats[c].dispatches = 0

\* C23 witness: the feature build was given an enabled config and an empty
\* credential, and both asks on the handle have failed with ConfigError.
C23_Witness ==
    /\ service.kind = "GigaChat"
    /\ feature
    /\ args.config.enabled
    /\ args.token = Some("")
    /\ \A c \in Calls :
          /\ pc[c] = "returned"
          /\ result[c].kind = "ConfigError"
          /\ stats[c].dispatches = 0

\* C24: in a build without the "gigachat" feature create returns a
\* MockAiService whatever the config, the credential and the system prompt,
\* also for an enabled config with a credential, and ask is answered by the
\* mock.
C24_NoFeatureAlwaysMock ==
    (Created /\ ~feature) =>
        /\ service = MockAiServiceNew
        /\ \A c \in Calls :
              /\ wk[c] = NoWorker
              /\ pc[c] = "returned" => result[c].kind = "Ok"

\* C24 witness: the build without the feature was given an enabled config, a
\* credential and a system prompt, and its handle, a MockAiService, has
\* answered.
C24_Witness ==
    /\ service.kind = "Mock"
    /\ ~feature
    /\ args.config.enabled
    /\ args.token = Some("tok123")
    /\ args.system_prompt = Some(" Be concise\n")
    /\ pc[1] = "returned"
    /\ result[1].kind = "Ok"

\* C25 as stated: on every handle system_prompt_applied() is true if and
\* only if ask on that handle prepends the instruction template to the
\* question: every call that has returned composed a text that begins with
\* the template exactly when the flag is true.
C25_Original ==
    appliedSeen # None =>
        \A c \in Calls :
            pc[c] = "returned" =>
                (Unwrap(appliedSeen) <=>
                    StartsWith(locals[c].prompt,
                               "System instructions (do not show to the user):\n"))

\* C25 amended: on every handle, whenever an ask dispatches, the dispatched
\* text begins with the instruction template if and only if
\* system_prompt_applied() is true; the flag is true exactly when the
\* GigaChatService was selected and the supplied prompt is non-blank, and
\* false on the mock whatever prompt was supplied.
C25_FlagMatchesDispatch ==
    appliedSeen # None =>
        /\ \A c \in Calls :
              wk[c].sent # None =>
                  (Unwrap(appliedSeen) <=>
                      StartsWith(Unwrap(wk[c].sent),
                                 "System instructions (do not show to the user):\n"))
        /\ Unwrap(appliedSeen) <=>
              (service.kind = "GigaChat"
                   /\ args.system_prompt = Some(" Be concise\n"))
        /\ service.kind = "Mock" => Unwrap(appliedSeen) = FALSE

\* C25 witness: the mock was selected although a non-blank prompt was
\* supplied, it has answered a question, and its flag was read as false.
C25_Witness ==
    /\ service.kind = "Mock"
    /\ args.system_prompt = Some(" Be concise\n")
    /\ pc[1] = "returned"
    /\ appliedSeen = Some(FALSE)

\* C26: with several GigaChatService::ask calls in flight on one service,
\* each call that got past the credential check dispatched its own composed
\* text, once, and returns the outcome of its own worker: the response or the
\* failure the provider gave to that dispatch, or that worker's panic.
C26_NoCrossCallResults ==
    \A c \in Calls :
        (service.kind = "GigaChat" /\ pc[c] = "returned"
             /\ result[c].kind # "ConfigError") =>
            /\ stats[c].dispatches <= 1
            /\ wk[c].sent # None =>
                  Unwrap(wk[c].sent) =
                      IF service.system_prompt = Some(" Be concise\n")
                      THEN PromptHeader \o "Be concise" \o PromptSeparator
                           \o question[c]
                      ELSE question[c]
            /\ result[c] =
                  IF wk[c].phase = "panicked"
                  THEN InternalError("task panicked")
                  ELSE IF wk[c].reply.kind = "Err"
                  THEN ApiError(wk[c].reply.text)
                  ELSE Ok(wk[c].reply.text)

\* C26 witness: the provider has answered the first call's dispatch with "42"
\* and that call has not resumed yet, while the second call, which asked
\* something else, has returned the failure of its own dispatch.
C26_Witness ==
    /\ service.kind = "GigaChat"
    /\ question[1] # question[2]
    /\ pc[1] = "awaiting"
    /\ wk[1].phase = "done"
    /\ wk[1].reply = [kind |-> "Ok", text |-> "42"]
    /\ pc[2] = "returned"
    /\ result[2].kind = "ApiError"

\* C27: the outcomes of GigaChatService::ask follow the phases of the call:
\* ConfigError is returned only by a call that started no worker, and only
\* with a blank credential; a call that started a worker ends only with Ok,
\* ApiError or InternalError; a call with a non-blank credential that has got
\* past the check and the composition has started exactly one worker; and
\* once a call has started its worker, no step takes the worker back or
\* gives the call a ConfigError.
C27_OutcomesOrderedByPhase ==
    /\ [](\A c \in Calls :
            service.kind = "GigaChat" =>
                /\ stats[c].workers <= 1
                /\ result[c].kind = "ConfigError" =>
                      /\ stats[c].workers = 0
                      /\ wk[c] = NoWorker
                      /\ service.token \in {"", " \t"}
                /\ (stats[c].workers = 1 /\ pc[c] = "returned") =>
                      result[c].kind \in {"Ok", "ApiError", "InternalError"}
                /\ (service.token = "tok123"
                        /\ pc[c] \in {"awaiting", "returned"}) =>
                      stats[c].workers = 1)
    /\ [][\A c \in Calls :
            stats[c].workers = 1 =>
                /\ stats'[c].workers = 1
                /\ result'[c].kind # "ConfigError"]_vars

\* C27 witness: with a non-blank credential both calls have started one
\* worker each and have ended, one with InternalError and one with ApiError.
C27_Witness ==
    /\ service.kind = "GigaChat"
    /\ service.token = "tok123"
    /\ \A c \in Calls : pc[c] = "returned" /\ stats[c].workers = 1
    /\ result[1].kind = "InternalError"
    /\ result[2].kind = "ApiError"

====
